---- MODULE Spec2Model ----
(***************************************************************************)
(* Model of adjusted_fdv.py: the weekly staking simulation                 *)
(* calculate_alpha_growth, the "Calculate Analysis" button handler that    *)
(* picks the data source, runs the simulation and derives the valuation    *)
(* metrics, and the session storage the handler writes.                    *)
(*                                                                         *)
(* Numbers.  Python evaluates every formula of the program in IEEE-754     *)
(* binary64, rounding each operation to nearest, ties to even.  A number   *)
(* is modelled as an exact fraction [neg, n, d] of arbitrary-precision     *)
(* naturals (little-endian sequences of 15-bit limbs), and every           *)
(* arithmetic operation of the program is the exact operation followed by  *)
(* Rnd, the rounding to 53 significant bits.  The variable arith selects   *)
(* the arithmetic: "f64" is what the interpreter does; "exact" skips the   *)
(* rounding and is used only for the statement that is made "in exact      *)
(* arithmetic".  Exponent overflow and subnormals are outside the model:   *)
(* the inputs are chosen so that every value stays in the normal range.    *)
(***************************************************************************)
EXTENDS Integers, Sequences, FiniteSets, TLC

VARIABLES
    arith,              \* "f64" | "exact": how arithmetic results are rounded
    entry,              \* "ui": the button handler; "call": calculate_alpha_growth called directly
    data_source,        \* st.radio value (line 179)
    api_key,            \* "" | "key" | "None" (lines 186, 202)
    manual_supply,      \* lines 193, 199
    manual_fdv,         \* lines 194, 201
    initial_holdings,   \* line 171 / parameter of calculate_alpha_growth
    tao_investment,     \* line 172
    weeks,              \* line 175 / parameter
    injection,          \* alpha_injection_param of the running call
    in_pool,            \* alpha_in_pool_param of the running call
    root_staked,        \* avg_root_staked_tao of the running call
    pc,                 \* position of the script
    start_alpha_supply, \* the caller's start supply: handler local (lines 219, 235), used at line 264
    current_fdv_usd,    \* handler local (lines 220, 236)
    supply_arg,         \* calculate_alpha_growth's parameter start_alpha_supply, reassigned at line 153
    week,               \* loop variable of line 95: number of iterations done
    start_total_supply, \* locals of the last iteration: line 97
    end_total_supply,   \* line 100
    start_out_supply,   \* line 103
    end_out_supply,     \* line 106
    avg_out_supply,     \* line 109
    start_root_proportion,  \* line 112
    start_alpha_proportion, \* line 115
    end_root_proportion,    \* line 118
    end_alpha_proportion,   \* line 121
    period_avg_alpha_proportion, \* line 124
    period_staking_rewards, \* line 127
    user_staking_rewards,   \* line 130
    new_holdings,       \* line 133
    alpha_apr,          \* line 136
    alpha_apy,          \* line 139
    current_holdings,   \* local (lines 92, 152)
    weekly_data,        \* local list (lines 93, 142)
    results,            \* the dict returned at line 155, or None
    session             \* st.session_state: its keys and the values stored at lines 274-284

vars == <<arith, entry, data_source, api_key, manual_supply, manual_fdv,
          initial_holdings, tao_investment, weeks, injection, in_pool,
          root_staked, pc, start_alpha_supply, current_fdv_usd, supply_arg,
          week, start_total_supply, end_total_supply, start_out_supply,
          end_out_supply, avg_out_supply, start_root_proportion,
          start_alpha_proportion, end_root_proportion, end_alpha_proportion,
          period_avg_alpha_proportion, period_staking_rewards,
          user_staking_rewards, new_holdings, alpha_apr, alpha_apy,
          current_holdings, weekly_data, results, session>>

(***************************************************************************)
(* Arbitrary-precision naturals: little-endian limb sequences, no leading  *)
(* zero limb; zero is the empty sequence.                                  *)
(***************************************************************************)
LimbBits == 5 * 3
Base == 2^LimbBits

\* The operators below avoid recursion over limbs and bits where they can:
\* carries, borrows and comparisons are stated with quantifiers.  A value
\* that is used more than once is passed on as an argument.

Max(x, y) == IF x >= y THEN x ELSE y
Min(x, y) == IF x <= y THEN x ELSE y
Limb(a, i) == IF i >= 1 /\ i <= Len(a) THEN a[i] ELSE 0

\* a without its leading zero limbs
BNorm(a) ==
    IF \A i \in 1..Len(a) : a[i] = 0 THEN <<>>
    ELSE SubSeq(a, 1, CHOOSE i \in 1..Len(a) :
                          a[i] # 0 /\ \A k \in (i + 1)..Len(a) : a[k] = 0)

\* the natural k < 2^31
BInt(k) == BNorm(<<k % Base, (k \div Base) % Base, k \div (Base * Base)>>)

BShiftLimbs(a, j) == IF a = <<>> THEN a ELSE [i \in 1..j |-> 0] \o a

\* the carry into limb i of the limb sums s
Carry(s, i) ==
    IF \E j \in 1..(i - 1) : s[j] >= Base /\ \A k \in (j + 1)..(i - 1) : s[k] = Base - 1
    THEN 1 ELSE 0

\* the number whose n limb sums are s
BCarried(s, n) ==
    BNorm([i \in 1..(n + 1) |-> IF i <= n THEN (s[i] + Carry(s, i)) % Base ELSE Carry(s, i)])

BAdd(a, b) ==
    IF a = <<>> THEN b ELSE IF b = <<>> THEN a
    ELSE BCarried([i \in 1..Max(Len(a), Len(b)) |-> Limb(a, i) + Limb(b, i)],
                  Max(Len(a), Len(b)))

\* the borrow out of the limbs below i of the limb differences s
Borrow(s, i) ==
    IF \E j \in 1..(i - 1) : s[j] < 0 /\ \A k \in (j + 1)..(i - 1) : s[k] = 0
    THEN 1 ELSE 0

\* the number whose limb differences are s
BBorrowed(s) == BNorm([i \in 1..Len(s) |-> (s[i] - Borrow(s, i)) % Base])

\* a - b for a >= b
BSub(a, b) ==
    IF b = <<>> THEN a ELSE BBorrowed([i \in 1..Len(a) |-> a[i] - Limb(b, i)])

\* the highest limb in which a and b, of the same length, differ
BTopDiff(a, b) ==
    CHOOSE i \in 1..Len(a) : a[i] # b[i] /\ \A k \in (i + 1)..Len(a) : a[k] = b[k]

BCmpAt(a, b, i) == IF a[i] > b[i] THEN 1 ELSE -1

\* -1, 0, 1 as a < b, a = b, a > b
BCmp(a, b) ==
    IF Len(a) # Len(b) THEN (IF Len(a) > Len(b) THEN 1 ELSE -1)
    ELSE IF a = b THEN 0
    ELSE BCmpAt(a, b, BTopDiff(a, b))

\* a * k for 0 <= k < Base
BMulSmall(a, k) ==
    IF k = 0 \/ a = <<>> THEN <<>>
    ELSE BAdd([i \in 1..Len(a) |-> (a[i] * k) % Base],
              <<0>> \o [i \in 1..Len(a) |-> (a[i] * k) \div Base])

\* acc + a * (the limbs j, j+1, ... of b, at their places); the test of
\* Len(acc) only makes TLC evaluate acc before it descends
RECURSIVE BMulAt(_, _, _, _)
BMulAt(a, b, j, acc) ==
    IF j > Len(b) \/ Len(acc) < 0 THEN acc
    ELSE BMulAt(a, b, j + 1, BAdd(acc, BShiftLimbs(BMulSmall(a, b[j]), j - 1)))

BMul(a, b) ==
    IF a = <<>> \/ b = <<>> THEN <<>>
    ELSE IF Len(a) >= Len(b) THEN BMulAt(a, b, 1, <<>>) ELSE BMulAt(b, a, 1, <<>>)

BShlBits(a, f) ==
    BNorm([i \in 1..(Len(a) + 1) |->
              ((Limb(a, i) * f) % Base) + ((Limb(a, i - 1) * f) \div Base)])

\* a * 2^t
BShl(a, t) ==
    IF a = <<>> THEN a
    ELSE BShiftLimbs(BShlBits(a, 2^(t % LimbBits)), t \div LimbBits)

\* a div 2^(LimbBits * j + r)
BShrAt(a, j, r) ==
    IF j >= Len(a) THEN <<>>
    ELSE BNorm([i \in 1..(Len(a) - j) |->
                   (a[i + j] \div (2^r)) + ((Limb(a, i + j + 1) % (2^r)) * (2^(LimbBits - r)))])

\* a div 2^t
BShr(a, t) == BShrAt(a, t \div LimbBits, t % LimbBits)

\* number of bits of 0 < k < Base
SmallBitLen(k) == CHOOSE j \in 1..LimbBits : 2^(j - 1) <= k /\ k < 2^j

\* number of bits of a: 0 for zero, else floor(log2 a) + 1
BitLen(a) == IF a = <<>> THEN 0 ELSE (LimbBits * (Len(a) - 1)) + SmallBitLen(a[Len(a)])

BIsOdd(a) == a # <<>> /\ a[1] % 2 = 1

\* the number of trailing zero bits of 0 < k < Base
SmallTrailingZeros(k) ==
    CHOOSE j \in 0..(LimbBits - 1) : k % (2^(j + 1)) # 0 /\ k % (2^j) = 0

\* the lowest nonzero limb of a > 0
BLowLimb(a) == CHOOSE i \in 1..Len(a) : a[i] # 0 /\ \A k \in 1..(i - 1) : a[k] = 0

BTrailingZerosAt(a, i) == (LimbBits * (i - 1)) + SmallTrailingZeros(a[i])

\* the number of trailing zero bits of a > 0
BTrailingZeros(a) == BTrailingZerosAt(a, BLowLimb(a))

\* One quotient digit.  x < b * Base and b's top limb is >= Base / 2, so the
\* estimate q0 from the leading limbs is the digit, or 1 or 2 more (Knuth,
\* TAOCP 4.3.1 B); p is q0 * b.  The result is <<the digit put before q,
\* x - digit * b>>.
RECURSIVE BDigitFix(_, _, _, _, _)
BDigitFix(x, b, q, q0, p) ==
    IF BCmp(p, x) <= 0 THEN << <<q0>> \o q, BSub(x, p) >>
    ELSE BDigitFix(x, b, q, q0 - 1, BSub(p, b))

BDigitTry(x, b, q, q0) == BDigitFix(x, b, q, q0, BMulSmall(b, q0))

BDigit(x, b, q) ==
    BDigitTry(x, b, q,
              Min(Base - 1, ((Limb(x, Len(b) + 1) * Base) + Limb(x, Len(b))) \div b[Len(b)]))

\* long division over the limbs i, i-1, ..., 1 of a; qr is <<the quotient limbs
\* found so far, the remainder of the limbs above>>; the test of Len(qr) only
\* makes TLC evaluate qr before it descends
RECURSIVE BDivAt(_, _, _, _)
BDivAt(a, b, i, qr) ==
    IF i = 0 \/ Len(qr) < 0 THEN qr
    ELSE BDivAt(a, b, i - 1, BDigit(BNorm(<<a[i]>> \o qr[2]), b, qr[1]))

BDivOut(qr, bs) == <<BNorm(qr[1]), qr[2], bs>>

\* as divided by bs, whose top limb is >= Base / 2
BDivNorm(as, bs) ==
    IF Len(as) < Len(bs) THEN << <<>>, as, bs >>
    ELSE BDivOut(BDivAt(as, bs, Len(as) - Len(bs) + 1,
                        << <<>>, SubSeq(as, Len(as) - Len(bs) + 2, Len(as)) >>),
                 bs)

BDivShift(a, b, s) == BDivNorm(BShl(a, s), BShl(b, s))

\* <<a div b, (a mod b) * 2^s, b * 2^s>> for b > 0, where s makes b's top limb >= Base / 2
BDivMod(a, b) == BDivShift(a, b, LimbBits - SmallBitLen(b[Len(b)]))

(***************************************************************************)
(* Exact fractions.  Zero is unsigned (Python's -0.0 compares equal to     *)
(* 0.0 and no formula of the program tells them apart).                    *)
(***************************************************************************)
BOne == <<1>>
Zero == [neg |-> FALSE, n |-> <<>>, d |-> BOne]
Frac(neg, n, d) == IF n = <<>> THEN Zero ELSE [neg |-> neg, n |-> n, d |-> d]

\* the Python int k as a number
RInt(k) == IF k < 0 THEN Frac(TRUE, BInt(-k), BOne) ELSE Frac(FALSE, BInt(k), BOne)

RIsZero(x) == x.n = <<>>
RSign(x) == IF x.n = <<>> THEN 0 ELSE IF x.neg THEN -1 ELSE 1
RNeg(x) == Frac(~x.neg, x.n, x.d)

\* -1, 0, 1 as x < y, x = y, x > y
RCmp(x, y) ==
    IF RSign(x) # RSign(y) THEN (IF RSign(x) < RSign(y) THEN -1 ELSE 1)
    ELSE IF RSign(x) = 0 THEN 0
    ELSE RSign(x) * BCmp(BMul(x.n, y.d), BMul(y.n, x.d))

REq(x, y) == RCmp(x, y) = 0
RLt(x, y) == RCmp(x, y) < 0
RLe(x, y) == RCmp(x, y) <= 0

\* a/d + b/d with the signs xneg and yneg
RAddParts(xneg, yneg, a, b, d) ==
    IF xneg = yneg THEN Frac(xneg, BAdd(a, b), d)
    ELSE IF BCmp(a, b) >= 0 THEN Frac(xneg, BSub(a, b), d)
    ELSE Frac(yneg, BSub(b, a), d)

RAddX(x, y) == RAddParts(x.neg, y.neg, BMul(x.n, y.d), BMul(y.n, x.d), BMul(x.d, y.d))
RSubX(x, y) == RAddX(x, RNeg(y))
RMulX(x, y) == Frac(x.neg # y.neg, BMul(x.n, y.n), BMul(x.d, y.d))
\* x / y for y # 0
RDivX(x, y) == Frac(x.neg # y.neg, BMul(x.n, y.d), BMul(x.d, y.n))

(***************************************************************************)
(* binary64 rounding: to MantBits significant bits, nearest, ties to even. *)
(***************************************************************************)
MantBits == 52 + 1

\* m * 2^e for e < 0, in lowest terms: t is the number of bits to cancel
DyadicCut(neg, m, e, t) == Frac(neg, BShr(m, t), BShl(BOne, (-e) - t))

\* m * 2^e in lowest terms
Dyadic(neg, m, e) ==
    IF m = <<>> THEN Zero
    ELSE IF e >= 0 THEN Frac(neg, BShl(m, e), BOne)
    ELSE DyadicCut(neg, m, e, Min(BTrailingZeros(m), -e))

\* floor(log2(n/d)), given k = BitLen(n) - BitLen(d): it is k when
\* n >= d * 2^k, and k - 1 otherwise
ExponentFrom(n, d, k) ==
    IF (IF k >= 0 THEN BCmp(n, BShl(d, k)) >= 0 ELSE BCmp(BShl(n, -k), d) >= 0)
    THEN k ELSE k - 1

Exponent(n, d) == ExponentFrom(n, d, BitLen(n) - BitLen(d))

\* q * 2^e rounded up or not: c compares twice the remainder with the divisor
RndUp(neg, q, c, e) ==
    Dyadic(neg, IF c > 0 \/ (c = 0 /\ BIsOdd(q)) THEN BAdd(q, BOne) ELSE q, e)

\* qr is BDivMod's result for the quotient of x / 2^e
RndQuot(neg, qr, e) == RndUp(neg, qr[1], BCmp(BShl(qr[2], 1), qr[3]), e)

\* x rounded to a multiple of 2^e
RndAt(x, e) ==
    RndQuot(x.neg,
            BDivMod(IF e >= 0 THEN x.n ELSE BShl(x.n, -e),
                    IF e >= 0 THEN BShl(x.d, e) ELSE x.d),
            e)

Rnd53(x) ==
    IF x.n = <<>> THEN Zero
    ELSE RndAt(x, Exponent(x.n, x.d) - (MantBits - 1))

\* the result of an arithmetic operation as the program gets it
Rnd(x) == IF arith = "f64" THEN Rnd53(x) ELSE x

FAdd(x, y) == Rnd(RAddX(x, y))
FSub(x, y) == Rnd(RSubX(x, y))
FMul(x, y) == Rnd(RMulX(x, y))
\* x / y for y # 0 (the caller raises ZeroDivisionError otherwise)
FDiv(x, y) == Rnd(RDivX(x, y))

\* the float literal n/d (a decimal literal is converted to the nearest double)
Dec(n, d) == Rnd(RDivX(RInt(n), RInt(d)))

ROne == RInt(1)
RPos(x) == RSign(x) > 0

(***************************************************************************)
(* calculate_alpha_growth, lines 87-162: the formulas of one iteration.    *)
(***************************************************************************)
\* A faulty variant of EndTotalSupply: the emission is subtracted instead of added.
EndTotalSupplyMinus(start_total, alpha_injection_param) ==
    FSub(FSub(start_total, RInt(7200 * 7)), FMul(RInt(7200 * 7), alpha_injection_param))

\* line 100: start_total_supply + 7200*7 + 7200*7*alpha_injection_param
EndTotalSupply(start_total, alpha_injection_param) ==
    FAdd(FAdd(start_total, RInt(7200 * 7)), FMul(RInt(7200 * 7), alpha_injection_param))

\* lines 103 and 106: total * (1 - alpha_in_pool_param)
OutSupply(total, alpha_in_pool_param) ==
    FMul(total, FSub(ROne, alpha_in_pool_param))

\* line 109
AvgOutSupply(start_out, end_out) == FDiv(FAdd(start_out, end_out), RInt(2))

\* lines 112 and 118: the divisor avg_root_staked_tao * 0.18 + total
RootDivisor(avg_root_staked_tao, total) ==
    FAdd(FMul(avg_root_staked_tao, Dec(18, 100)), total)

\* lines 112 and 118, for a divisor that is not zero
RootProportion(avg_root_staked_tao, total) ==
    FDiv(FMul(avg_root_staked_tao, Dec(18, 100)), RootDivisor(avg_root_staked_tao, total))

\* lines 115 and 121
AlphaProportion(root_proportion) == FSub(ROne, root_proportion)

\* line 124
PeriodAvgAlphaProportion(start_prop, end_prop) == FDiv(FAdd(start_prop, end_prop), RInt(2))

\* line 127
PeriodStakingRewards(start_out, end_out, avg_prop) ==
    FMul(FMul(FSub(end_out, start_out), Dec(41, 100)), avg_prop)

\* A faulty variant of UserStakingRewards: the share ignores the user's holdings.
UserStakingRewardsFlat(holdings, avg_out, period_rewards) ==
    FMul(FDiv(ROne, avg_out), period_rewards)

\* line 130, for avg_out_supply that is not zero
UserStakingRewards(holdings, avg_out, period_rewards) ==
    FMul(FDiv(holdings, avg_out), period_rewards)

\* A faulty variant of NewHoldings: the reward is taken away instead of added.
NewHoldingsMinus(holdings, rewards) == FSub(holdings, rewards)

\* line 133
NewHoldings(holdings, rewards) == FAdd(holdings, rewards)

\* line 136: the division is guarded by current_holdings > 0
AlphaApr(rewards, holdings) == IF RPos(holdings) THEN FDiv(rewards, holdings) ELSE RInt(0)

\* line 139
Apy(apr) == FMul(apr, RInt(52))

\* A faulty variant of WeekRecord: the weeks are numbered from 0, as the loop
\* variable is.
WeekRecordFromZero(wk, holdings, rewards, new, apr, apy) ==
    [Week |-> wk, Start_Holdings |-> holdings, Staking_Rewards |-> rewards,
     End_Holdings |-> new, Weekly_APR |-> apr, Annualized_APY |-> apy]

\* lines 142-149
WeekRecord(wk, holdings, rewards, new, apr, apy) ==
    [Week |-> wk + 1, Start_Holdings |-> holdings, Staking_Rewards |-> rewards,
     End_Holdings |-> new, Weekly_APR |-> apr, Annualized_APY |-> apy]

\* A float division by zero raises ZeroDivisionError: at line 112 or 118 when
\* avg_root_staked_tao * 0.18 + the total supply is 0, at line 130 when the
\* average out-of-pool supply is 0.
WeekRaises(start_total, inj, pool, root) ==
    \/ RIsZero(RootDivisor(root, start_total))
    \/ RIsZero(RootDivisor(root, EndTotalSupply(start_total, inj)))
    \/ RIsZero(AvgOutSupply(OutSupply(start_total, pool),
                            OutSupply(EndTotalSupply(start_total, inj), pool)))

\* line 170: the subnet id the widget starts with; the simulation only passes it on
SubnetId == "1"

\* lines 155-162
Results(init_holdings, final_holdings, wks, data) ==
    [subnet_id |-> SubnetId,
     initial_holdings |-> init_holdings,
     final_holdings |-> final_holdings,
     weeks_analyzed |-> wks,
     total_rewards |-> FSub(final_holdings, init_holdings),
     weekly_data |-> data]

(***************************************************************************)
(* The valuation metrics of the button handler, lines 258-271.             *)
(***************************************************************************)
\* line 258: initial_cost_basis = tao_investment / initial_holdings
InitialCostBasis(investment, holdings) == FDiv(investment, holdings)

\* line 259: adjusted_cost_basis = tao_investment / results['final_holdings']
AdjustedCostBasis(investment, final_holdings) == FDiv(investment, final_holdings)

\* line 260: ((initial_cost_basis - adjusted_cost_basis) / initial_cost_basis) * 100
CostBasisDecrease(initial_cost_basis, adjusted_cost_basis) ==
    FMul(FDiv(FSub(initial_cost_basis, adjusted_cost_basis), initial_cost_basis), RInt(100))

\* line 263
max_supply == RInt(21000000)

\* A faulty variant of FinalCirculatingSupply: the parentheses around the
\* weekly emission are lost,
\* start + weeks * 7200*7 + 7200*7*alpha_injection_param.
FinalCirculatingSupplyFlat(start, wks, alpha_injection_param) ==
    FAdd(FAdd(start, RInt(wks * (7200 * 7))), FMul(RInt(7200 * 7), alpha_injection_param))

\* line 264: start_alpha_supply + (weeks * (7200*7 + 7200*7*alpha_injection_param))
FinalCirculatingSupply(start, wks, alpha_injection_param) ==
    FAdd(start, FMul(RInt(wks), FAdd(RInt(7200 * 7), FMul(RInt(7200 * 7), alpha_injection_param))))

\* line 265
CirculatingSupplyPercentage(final_supply) == FMul(FDiv(final_supply, max_supply), RInt(100))

\* line 266
FdvMultiplier(final_supply) == FDiv(final_supply, max_supply)

\* line 267
SupplyDiscount(fdv_multiplier) == FMul(FSub(ROne, fdv_multiplier), RInt(100))

\* A faulty variant of EffectiveFdvMultiplier: the percentage is taken for a
\* fraction.
EffectiveFdvMultiplierPct(fdv_multiplier, cost_basis_decrease) ==
    FMul(fdv_multiplier, FSub(ROne, cost_basis_decrease))

\* line 269: fdv_multiplier * (1 - (cost_basis_decrease / 100))
EffectiveFdvMultiplier(fdv_multiplier, cost_basis_decrease) ==
    FMul(fdv_multiplier, FSub(ROne, FDiv(cost_basis_decrease, RInt(100))))

\* line 270
TotalEffectiveDiscount(effective_fdv_multiplier) ==
    FMul(FSub(ROne, effective_fdv_multiplier), RInt(100))

\* line 271: current_fdv_usd * (1 - (total_effective_discount / 100))
AdjustedFdvUsd(fdv, total_effective_discount) ==
    FMul(fdv, FSub(ROne, FDiv(total_effective_discount, RInt(100))))

\* The keys written at lines 274-284.
SessionKeys ==
    {"results", "current_fdv_usd", "total_effective_discount", "adjusted_fdv_usd",
     "initial_cost_basis", "adjusted_cost_basis", "cost_basis_decrease",
     "final_circulating_supply", "circulating_supply_percentage",
     "supply_discount", "staking_discount"}

\* The session state after lines 274-284.
Stored(res, fdv, total_effective_discount, adjusted_fdv_usd, initial_cost_basis, adjusted_cost_basis, cost_basis_decrease, final_circulating_supply, circulating_supply_percentage, supply_discount) ==
    [keys |-> SessionKeys,
     results |-> res,
     current_fdv_usd |-> fdv,
     total_effective_discount |-> total_effective_discount,
     adjusted_fdv_usd |-> adjusted_fdv_usd,
     initial_cost_basis |-> initial_cost_basis,
     adjusted_cost_basis |-> adjusted_cost_basis,
     cost_basis_decrease |-> cost_basis_decrease,
     final_circulating_supply |-> final_circulating_supply,
     circulating_supply_percentage |-> circulating_supply_percentage,
     supply_discount |-> supply_discount,
     staking_discount |-> cost_basis_decrease]

(***************************************************************************)
(* Inputs.                                                                 *)
(***************************************************************************)
\* The value of an unset local, an absent widget or a missing dict.
None == [none |-> TRUE]

\* st.session_state before the first successful run.
EmptySession == [keys |-> {}]

\* The two options of the st.radio at lines 179-183.
UseApi == "Use API (requires tao.app API key)"
EnterManually == "Enter data manually"

\* Largest analysis period explored (the widget allows 1..520).
MaxWeeks == 3
\* Largest analysis period explored without rounding.
MaxExactWeeks == 1

\* Defaults of lines 193-194.
DefaultSupply == RInt(1925000)
DefaultFdv == RInt(135000000)

\* Values typed into "Current Circulating Supply of Alpha" (line 199):
\* the default, 148.17, and 1e21.
ManualSupplies ==
    {DefaultSupply, Dec(14817, 100),
     RMulX(RMulX(RInt(10000000), RInt(10000000)), RInt(10000000))}

\* "Initial Alpha Holdings" (line 171, min_value 0.0) and "TAO Investment"
\* (line 172, min_value 0.0).
Holdings == {RInt(0), RInt(5000)}
Investments == {RInt(0), RInt(100), RInt(250)}

\* Lines 205-207: the parameters the handler passes to the simulation.
HandlerParams == <<Dec(75, 100), Dec(37, 100), RInt(5600000)>>

\* <<alpha_injection_param, alpha_in_pool_param, avg_root_staked_tao>> of a
\* direct call: the handler's, an injection rate of 0, and a pool holding
\* the whole supply.
CallParams ==
    {HandlerParams,
     <<RInt(0), Dec(5, 10), RInt(1000000)>>,
     <<ROne, ROne, RInt(5600000)>>}

\* start_alpha_supply of a direct call.
CallSupplies == ManualSupplies \cup {RInt(0)}

\* Results of fetch_subnet_data / fetch_fdv_data (lines 219-220).
Fetched == {None, DefaultSupply}

(***************************************************************************)
(* Initial states: the script has rendered its widgets (lines 164-207) and *)
(* the button has not been pressed, or calculate_alpha_growth is about to  *)
(* be called directly.                                                     *)
(***************************************************************************)
InitLocals ==
    /\ pc = "idle"
    /\ start_alpha_supply = None
    /\ current_fdv_usd = None
    /\ supply_arg = None
    /\ week = 0
    /\ start_total_supply = None
    /\ end_total_supply = None
    /\ start_out_supply = None
    /\ end_out_supply = None
    /\ avg_out_supply = None
    /\ start_root_proportion = None
    /\ start_alpha_proportion = None
    /\ end_root_proportion = None
    /\ end_alpha_proportion = None
    /\ period_avg_alpha_proportion = None
    /\ period_staking_rewards = None
    /\ user_staking_rewards = None
    /\ new_holdings = None
    /\ alpha_apr = None
    /\ alpha_apy = None
    /\ current_holdings = None
    /\ weekly_data = <<>>
    /\ results = None
    /\ session = EmptySession

InitUi(maxw) ==
    /\ entry = "ui"
    /\ initial_holdings \in Holdings
    /\ tao_investment \in Investments
    /\ weeks \in 1..maxw
    /\ \/ /\ data_source = UseApi
          /\ api_key \in {"", "key"}
          /\ manual_supply = DefaultSupply
          /\ manual_fdv = DefaultFdv
       \/ /\ data_source = EnterManually
          /\ api_key = "None"
          /\ manual_supply \in ManualSupplies
          /\ manual_fdv = DefaultFdv
    /\ injection = HandlerParams[1]
    /\ in_pool = HandlerParams[2]
    /\ root_staked = HandlerParams[3]

InitCall(maxw) ==
    /\ entry = "call"
    /\ initial_holdings \in Holdings
    /\ tao_investment = None
    /\ weeks \in 0..maxw
    /\ data_source = "None"
    /\ api_key = "None"
    /\ manual_supply = None
    /\ manual_fdv = None
    /\ \E p \in CallParams :
          /\ injection = p[1]
          /\ in_pool = p[2]
          /\ root_staked = p[3]

InitWith(a, maxw) ==
    /\ arith = a
    /\ (InitUi(maxw) \/ InitCall(maxw))
    /\ InitLocals

Init == InitWith("f64", MaxWeeks)

InitExact == InitWith("exact", MaxExactWeeks)

(***************************************************************************)
(* Actions.                                                                *)
(***************************************************************************)
inputs == <<arith, entry, data_source, api_key, manual_supply, manual_fdv,
            initial_holdings, tao_investment, weeks, injection, in_pool,
            root_staked>>

\* The locals of one loop iteration.
locals == <<start_total_supply, end_total_supply, start_out_supply,
            end_out_supply, avg_out_supply, start_root_proportion,
            start_alpha_proportion, end_root_proportion, end_alpha_proportion,
            period_avg_alpha_proportion, period_staking_rewards,
            user_staking_rewards, new_holdings, alpha_apr, alpha_apy>>

\* Lines 88-93: calculate_alpha_growth is entered with start_alpha_supply = supply.
EnterGrowth(supply) ==
    /\ supply_arg' = supply
    /\ current_holdings' = initial_holdings
    /\ weekly_data' = <<>>
    /\ week' = 0
    /\ pc' = "loop"

\* st.stop() at lines 215 and 224: the run ends, nothing is computed or stored.
Stop ==
    /\ pc' = "stopped"
    /\ UNCHANGED <<start_alpha_supply, current_fdv_usd, supply_arg, week,
                   current_holdings, weekly_data>>

\* Lines 210-248: the button is pressed; the data source is chosen and the
\* simulation is entered.
Press ==
    /\ pc = "idle"
    /\ entry = "ui"
    /\ IF data_source = "Use API (requires API key)"
       THEN IF api_key \in {"", "None"}
            THEN Stop
            ELSE \E s \in Fetched, f \in Fetched :
                    IF s = None \/ f = None
                    THEN Stop
                    ELSE /\ start_alpha_supply' = s
                         /\ current_fdv_usd' = f
                         /\ EnterGrowth(s)
       ELSE /\ start_alpha_supply' = manual_supply
            /\ current_fdv_usd' = manual_fdv
            /\ EnterGrowth(manual_supply)
    /\ UNCHANGED <<inputs, locals, results, session>>

\* calculate_alpha_growth called directly with some start_alpha_supply, which
\* the caller keeps.
Call ==
    /\ pc = "idle"
    /\ entry = "call"
    /\ \E s \in CallSupplies : start_alpha_supply' = s /\ EnterGrowth(s)
    /\ UNCHANGED <<inputs, locals, current_fdv_usd, results, session>>

\* Lines 95-153: one iteration of the loop.
Week ==
    /\ pc = "loop"
    /\ week < weeks
    /\ IF WeekRaises(supply_arg, injection, in_pool, root_staked)
       THEN /\ pc' = "raised"
            /\ UNCHANGED <<locals, supply_arg, week, current_holdings, weekly_data>>
       ELSE /\ start_total_supply' = supply_arg
            /\ end_total_supply' = EndTotalSupply(start_total_supply', injection)
            /\ start_out_supply' = OutSupply(start_total_supply', in_pool)
            /\ end_out_supply' = OutSupply(end_total_supply', in_pool)
            /\ avg_out_supply' = AvgOutSupply(start_out_supply', end_out_supply')
            /\ start_root_proportion' = RootProportion(root_staked, start_total_supply')
            /\ start_alpha_proportion' = AlphaProportion(start_root_proportion')
            /\ end_root_proportion' = RootProportion(root_staked, end_total_supply')
            /\ end_alpha_proportion' = AlphaProportion(end_root_proportion')
            /\ period_avg_alpha_proportion' =
                  PeriodAvgAlphaProportion(start_alpha_proportion', end_alpha_proportion')
            /\ period_staking_rewards' =
                  PeriodStakingRewards(start_out_supply', end_out_supply',
                                       period_avg_alpha_proportion')
            /\ user_staking_rewards' =
                  UserStakingRewards(current_holdings, avg_out_supply',
                                     period_staking_rewards')
            /\ new_holdings' = NewHoldings(current_holdings, user_staking_rewards')
            /\ alpha_apr' = AlphaApr(user_staking_rewards', current_holdings)
            /\ alpha_apy' = Apy(alpha_apr')
            /\ weekly_data' =
                  Append(weekly_data,
                         WeekRecord(week, current_holdings, user_staking_rewards',
                                    new_holdings', alpha_apr', alpha_apy'))
            /\ current_holdings' = new_holdings'
            /\ supply_arg' = end_total_supply'
            /\ week' = week + 1
            /\ pc' = "loop"
    /\ UNCHANGED <<inputs, start_alpha_supply, current_fdv_usd, results, session>>

\* Lines 155-162: the loop is exhausted and the dict is returned, to the
\* handler (line 249) or to the direct caller.
Return ==
    /\ pc = "loop"
    /\ week >= weeks
    /\ results' = Results(initial_holdings, current_holdings, weeks, weekly_data)
    /\ pc' = IF entry = "ui" THEN "metrics" ELSE "returned"
    /\ UNCHANGED <<inputs, locals, start_alpha_supply, current_fdv_usd, supply_arg,
                   week, current_holdings, weekly_data, session>>

\* Lines 258-284: the metrics are computed and stored in the session state.
\* A float division by zero raises ZeroDivisionError: at line 258 when
\* initial_holdings is 0, at line 259 when final_holdings is 0, at line 260
\* when initial_cost_basis is 0.
Metrics ==
    /\ pc = "metrics"
    /\ IF RIsZero(initial_holdings) \/ RIsZero(results.final_holdings)
       THEN pc' = "raised" /\ UNCHANGED session
       ELSE \E initial_cost_basis \in {InitialCostBasis(tao_investment, initial_holdings)},
               adjusted_cost_basis \in {AdjustedCostBasis(tao_investment, results.final_holdings)} :
            IF RIsZero(initial_cost_basis)
            THEN pc' = "raised" /\ UNCHANGED session
            ELSE \E cost_basis_decrease \in {CostBasisDecrease(initial_cost_basis, adjusted_cost_basis)},
                    final_circulating_supply \in {FinalCirculatingSupply(start_alpha_supply, weeks, injection)} :
                 \E fdv_multiplier \in {FdvMultiplier(final_circulating_supply)} :
                 \E effective_fdv_multiplier \in {EffectiveFdvMultiplier(fdv_multiplier, cost_basis_decrease)} :
                 \E total_effective_discount \in {TotalEffectiveDiscount(effective_fdv_multiplier)} :
                    /\ session' = Stored(results, current_fdv_usd, total_effective_discount,
                                         AdjustedFdvUsd(current_fdv_usd, total_effective_discount),
                                         initial_cost_basis, adjusted_cost_basis,
                                         cost_basis_decrease, final_circulating_supply,
                                         CirculatingSupplyPercentage(final_circulating_supply),
                                         SupplyDiscount(fdv_multiplier))
                    /\ pc' = "stored"
    /\ UNCHANGED <<inputs, locals, start_alpha_supply, current_fdv_usd, supply_arg, week,
                   current_holdings, weekly_data, results>>

Next == Press \/ Call \/ Week \/ Return \/ Metrics

Spec == Init /\ [][Next]_vars

\* The same program with unrounded arithmetic.
SpecExact == InitExact /\ [][Next]_vars

(***************************************************************************)
(* Properties.                                                             *)
(***************************************************************************)
RAbs(x) == Frac(FALSE, x.n, x.d)

\* x is a whole number (x is in lowest terms, as every rounded value is)
IsWhole(x) == x.d = BOne

\* 2^MantBits: below it every whole number is a double
TwoToMantBits == Frac(FALSE, BShl(BOne, MantBits), BOne)

\* 2^(-MantBits): the largest relative error of one rounding
UnitRoundoff == Dyadic(FALSE, BOne, -MantBits)

\* calculate_alpha_growth has returned from a run of at least one week
LoopDone == pc \in {"returned", "metrics", "stored"} /\ weeks >= 1

\* line 264 for the parameters of the run
ClosedForm == FinalCirculatingSupply(start_alpha_supply, weeks, injection)

\* The weekly emission 7200*7 + 7200*7*alpha_injection_param has no fraction.
WholeEmission == IsWhole(FMul(RInt(7200 * 7), injection))

\* C1 as stated: after the last week the closed form of line 264 equals the
\* end_total_supply the loop has reached.
C1_ClosedFormEqualsLoop == LoopDone => REq(ClosedForm, end_total_supply)

\* C1 amended: the closed form and the loop's last end_total_supply agree up
\* to rounding, within (2 * weeks + 4) * 2^-53 of the closed form, and they
\* are equal when the start supply and the weekly emission are whole numbers
\* and the total stays below 2^53 (no addition rounds); for a stored run the
\* session holds the closed form.
C1_ClosedFormNearLoop ==
    LoopDone =>
        /\ RLe(RAbs(RSubX(ClosedForm, end_total_supply)),
               RMulX(RMulX(RInt((2 * weeks) + 4), UnitRoundoff), ClosedForm))
        /\ (IsWhole(start_alpha_supply) /\ WholeEmission /\ RLe(ClosedForm, TwoToMantBits))
              => REq(ClosedForm, end_total_supply)
        /\ pc = "stored" => session.final_circulating_supply = ClosedForm

\* A multi-week run from a start supply with a fraction has been stored.
C1_Witness ==
    /\ pc = "stored"
    /\ weeks >= 2
    /\ ~IsWhole(start_alpha_supply)
    /\ ~REq(session.final_circulating_supply, end_total_supply)

\* C2: in every iteration end_total_supply >= start_total_supply, and the
\* start_total_supply of an iteration after the first is the end_total_supply
\* of the iteration before it.
C2_SupplyNonDecreasing ==
    [][week' = week + 1 =>
          /\ RLe(start_total_supply', end_total_supply')
          /\ week >= 1 => REq(start_total_supply', end_total_supply)]_vars

\* The loop has done two iterations and the supply has grown in the last.
C2_Witness == pc = "loop" /\ week >= 2 /\ RLt(start_total_supply, end_total_supply)

\* A returned run with valid parameters (injection rate >= 0, root stake >= 0)
\* in which the user holds something and the out-of-pool supply is > 0 in
\* every week (supply > 0 and pool ratio < 1).
PositiveRun ==
    /\ LoopDone
    /\ RPos(initial_holdings)
    /\ RPos(start_alpha_supply)
    /\ RLt(in_pool, ROne)
    /\ RSign(injection) >= 0
    /\ RSign(root_staked) >= 0

\* C3 as stated: with holdings > 0 and out-of-pool supply > 0, final_holdings
\* is strictly greater than initial_holdings.
C3_HoldingsGrowStrictly ==
    PositiveRun => RLt(results.initial_holdings, results.final_holdings)

\* C3 amended: with holdings > 0 and out-of-pool supply > 0, no week lowers
\* the holdings and final_holdings >= initial_holdings; it is strictly
\* greater when the first week's reward is large enough to change the
\* holdings (End_Holdings > Start_Holdings in week 1).
C3_HoldingsNeverShrink ==
    PositiveRun =>
        /\ \A i \in 1..Len(results.weekly_data) :
              RLe(results.weekly_data[i].Start_Holdings, results.weekly_data[i].End_Holdings)
        /\ RLe(results.initial_holdings, results.final_holdings)
        /\ RLt(results.weekly_data[1].Start_Holdings, results.weekly_data[1].End_Holdings)
              => RLt(results.initial_holdings, results.final_holdings)

\* A multi-week run has returned holdings that grew.
C3_Witness ==
    /\ PositiveRun
    /\ weeks >= 2
    /\ RLt(results.initial_holdings, results.final_holdings)

\* C4 as stated: a call with weeks = 0 does not return a result.
C4_ZeroWeeksRejected == (entry = "call" /\ weeks = 0) => pc # "returned"

\* C5 as stated: with initial holdings 0 the run is refused before the loop:
\* no iteration is executed and no result is produced.
C5_ZeroHoldingsRefusedBeforeLoop ==
    (entry = "ui" /\ RIsZero(initial_holdings)) =>
        (week = 0 /\ weekly_data = <<>> /\ results = None)

\* C6 as stated: for investment >= 0, initial holdings > 0 and final holdings
\* > 0 the aggregation of lines 258-271 completes without a division by zero.
C6_AggregationCompletes ==
    (/\ entry = "ui"
     /\ results # None
     /\ RPos(initial_holdings)
     /\ RPos(results.final_holdings)) => pc # "raised"

\* C7 as stated: with the API source selected and an empty key the simulation
\* is not run and nothing is stored.
C7_ApiNeedsKey ==
    (entry = "ui" /\ data_source = UseApi /\ api_key = "") =>
        (pc \in {"idle", "stopped"} /\ session = EmptySession)

\* The week records data hold what lines 142-149 append for a run that starts
\* with the holdings first.
WeeklyDataChained(data, first) ==
    \A i \in 1..Len(data) :
        /\ data[i].Week = i
        /\ data[i].End_Holdings = FAdd(data[i].Start_Holdings, data[i].Staking_Rewards)
        /\ data[i].Start_Holdings = IF i = 1 THEN first ELSE data[i - 1].End_Holdings

\* What C8 says of the returned dict.
C8_Returned ==
    LoopDone =>
        /\ Len(results.weekly_data) = weeks
        /\ WeeklyDataChained(results.weekly_data, initial_holdings)
        /\ results.final_holdings = results.weekly_data[weeks].End_Holdings

\* What C8 says of one step: the records appended so far stay as they are.
C8_Kept ==
    \A i \in 1..Len(weekly_data) :
        Len(weekly_data') >= i /\ weekly_data'[i] = weekly_data[i]

\* C8: the returned weekly_data has exactly weeks records, numbered 1..weeks,
\* each with End_Holdings = Start_Holdings + Staking_Rewards, each starting
\* with the End_Holdings of the one before (the first with initial_holdings);
\* final_holdings is the last End_Holdings; an appended record never changes.
C8_WeeklyData == [](C8_Returned /\ WeeklyDataChained(weekly_data, initial_holdings)) /\ [][C8_Kept]_vars

\* A run of at least two weeks has returned.
C8_Witness == LoopDone /\ weeks >= 2 /\ Len(results.weekly_data) = weeks

\* The zero-holdings policy for one week record.
ZeroHoldingsWeek(r) ==
    RIsZero(r.Start_Holdings) =>
        /\ RIsZero(r.Staking_Rewards)
        /\ RIsZero(r.Weekly_APR)
        /\ RIsZero(r.Annualized_APY)
        /\ RIsZero(r.End_Holdings)

\* C9: a week that starts with holdings 0 has reward 0, weekly yield 0,
\* annualized yield 0 and end holdings 0; a run started with initial holdings
\* 0 returns one such record per week, final_holdings 0 and total_rewards 0.
C9_ZeroHoldingsPolicy ==
    /\ \A i \in 1..Len(weekly_data) : ZeroHoldingsWeek(weekly_data[i])
    /\ (results # None /\ RIsZero(initial_holdings)) =>
          /\ Len(results.weekly_data) = weeks
          /\ \A i \in 1..weeks : RIsZero(results.weekly_data[i].Start_Holdings)
          /\ RIsZero(results.final_holdings)
          /\ RIsZero(results.total_rewards)

\* A run of at least two weeks with initial holdings 0 has returned.
C9_Witness ==
    /\ results # None
    /\ RIsZero(initial_holdings)
    /\ weeks >= 2
    /\ Len(results.weekly_data) = weeks

\* initial_holdings / final_holdings, unrounded
HoldingsRatio == RDivX(initial_holdings, results.final_holdings)

\* final_circulating_supply / max_supply, unrounded
SupplyRatio == RDivX(session.final_circulating_supply, max_supply)

\* C10: without rounding, a stored run has
\* adjusted_fdv_usd = current_fdv_usd * (final_circulating_supply / max_supply)
\*                    * (initial_holdings / final_holdings),
\* staking_discount = cost_basis_decrease = (1 - initial_holdings / final_holdings) * 100
\* and total_effective_discount =
\*    (1 - (final_circulating_supply / max_supply) * (initial_holdings / final_holdings)) * 100:
\* none of them depends on tao_investment.
C10_ExactCollapse ==
    (pc = "stored" /\ arith = "exact") =>
        /\ REq(session.adjusted_fdv_usd,
               RMulX(RMulX(session.current_fdv_usd, SupplyRatio), HoldingsRatio))
        /\ REq(session.staking_discount, RMulX(RSubX(ROne, HoldingsRatio), RInt(100)))
        /\ REq(session.cost_basis_decrease, session.staking_discount)
        /\ REq(session.total_effective_discount,
               RMulX(RSubX(ROne, RMulX(SupplyRatio, HoldingsRatio)), RInt(100)))

\* A run with an investment other than the default has been stored without rounding.
C10_Witness ==
    /\ pc = "stored"
    /\ arith = "exact"
    /\ tao_investment = RInt(250)
    /\ RLt(initial_holdings, results.final_holdings)
====
